---- MODULE Spec2Model ----
(***************************************************************************)
(* The Poet's Canvas application (quotes/models.py, serializers.py,        *)
(* views.py): three tables (Quote, Book, Review), the REST view sets and   *)
(* the server-rendered views over them, the era report and the Wikipedia   *)
(* biography fetch.  The store is the three tables; one action is one      *)
(* request handler.  A handler that reads a row and writes it in separate  *)
(* database statements (the biography fetch, which calls Wikipedia in      *)
(* between, and the review handlers) is two actions with the request in    *)
(* flight between them, so that other requests interleave.                 *)
(***************************************************************************)
EXTENDS Integers, Sequences, FiniteSets, TLC

VARIABLES
    quotes,     \* Quote table: id -> [text, author, era, author_bio_summary, date_created]
    books,      \* Book table: id -> [title, author, cover_image]
    reviews,    \* Review table: id -> [book, reviewer_name, rating, body, created_at]
    quoteSeq,   \* next auto-increment id of Quote
    bookSeq,    \* next auto-increment id of Book
    reviewSeq,  \* next auto-increment id of Review
    clock,      \* the time auto_now_add reads
    fetching,   \* biography fetches waiting for Wikipedia: [view, pk, quote]
    reviewing,  \* review requests between their read and their write
    resp,       \* the last response: [op, method, status, notice, summary]
    listing,    \* the ids a list response holds, in order
    report      \* the rows the era report holds, in order

vars == <<quotes, books, reviews, quoteSeq, bookSeq, reviewSeq, clock,
          fetching, reviewing, resp, listing, report>>

store == <<quotes, books, reviews>>

(***************************************************************************)
(* Python values.  NULL is None (and a missing form key, for which         *)
(* QueryDict.get returns None); "" is the empty string.                    *)
(***************************************************************************)
NULL == "NULL"

\* bool(s) of a str or None
Truthy(s) == s # NULL /\ s # ""

\* request.POST.get(key, default)
GetDefault(v, default) == IF v = NULL THEN default ELSE v

\* `x if x else None`, `x or None`
OrNone(s) == IF Truthy(s) THEN s ELSE NULL

\* The empty table.
EmptyTable == [id \in {} |-> NULL]

\* INSERT or UPDATE of the row with primary key pk.
Put(table, pk, row) ==
    [id \in DOMAIN table \cup {pk} |-> IF id = pk THEN row ELSE table[id]]

\* DELETE of the rows with primary key in pks.
Remove(table, pks) == [id \in DOMAIN table \ pks |-> table[id]]

\* All orders a set of rows can be enumerated in.
Perms(S) ==
    {s \in [1..Cardinality(S) -> S] : \A i, j \in DOMAIN s : i # j => s[i] # s[j]}

\* ORDER BY key DESC over rows the database enumerates in the order `rows`:
\* an insertion sort that keeps rows of equal key in their enumeration order.
RECURSIVE InsertDesc(_, _, _)
InsertDesc(sorted, x, key) ==
    IF sorted = <<>> THEN <<x>>
    ELSE IF key[Head(sorted)] >= key[x]
         THEN <<Head(sorted)>> \o InsertDesc(Tail(sorted), x, key)
         ELSE <<x>> \o sorted

RECURSIVE OrderByDesc(_, _)
OrderByDesc(rows, key) ==
    IF rows = <<>> THEN <<>>
    ELSE InsertDesc(OrderByDesc(SubSeq(rows, 1, Len(rows) - 1), key),
                    rows[Len(rows)], key)

(***************************************************************************)
(* Responses.                                                              *)
(***************************************************************************)
Response(op, method, status, notice, summary) ==
    [op |-> op, method |-> method, status |-> status, notice |-> notice,
     summary |-> summary, cover_image_url |-> NULL]

Respond(op, method, status, notice) ==
    /\ resp' = Response(op, method, status, notice, NULL)
    /\ listing' = <<>>
    /\ report' = <<>>

(***************************************************************************)
(* Quote: models.py.                                                       *)
(***************************************************************************)
Quote(text, author, era, bio, created) ==
    [text |-> text, author |-> author, era |-> era,
     author_bio_summary |-> bio, date_created |-> created]

\* text and author are NOT NULL columns; era and author_bio_summary are null=True.
QuoteRowOk(row) == row.text # NULL /\ row.author # NULL

(***************************************************************************)
(* Server-rendered quote views.                                            *)
(***************************************************************************)
quote_list(method) ==
    /\ \E rows \in Perms(DOMAIN quotes) :
          listing' = OrderByDesc(rows, [id \in DOMAIN quotes |-> quotes[id].date_created])
    /\ resp' = Response("quote_list", method, 200, "none", NULL)
    /\ report' = <<>>
    /\ UNCHANGED <<store, quoteSeq, bookSeq, reviewSeq, clock, fetching, reviewing>>

quote_create(method, form) ==
    LET text == form.text
        author == form.author
        era == GetDefault(form.era, "")
    IN  /\ IF method = "POST" /\ Truthy(text) /\ Truthy(author)
           THEN /\ quotes' = Put(quotes, quoteSeq, Quote(text, author, OrNone(era), NULL, clock))
                /\ quoteSeq' = quoteSeq + 1
                /\ Respond("quote_create", method, 302, "success")
           ELSE /\ UNCHANGED <<quotes, quoteSeq>>
                /\ Respond("quote_create", method, 200,
                           IF method = "POST" THEN "error" ELSE "none")
        /\ UNCHANGED <<books, reviews, bookSeq, reviewSeq, clock, fetching, reviewing>>

quote_edit(pk, method, form) ==
    /\ IF pk \notin DOMAIN quotes
       THEN /\ UNCHANGED quotes
            /\ Respond("quote_edit", method, 404, "none")
       ELSE IF method = "POST"
       THEN LET row == [quotes[pk] EXCEPT !.text = form.text,
                                          !.author = form.author,
                                          !.era = OrNone(GetDefault(form.era, ""))]
            IN  IF QuoteRowOk(row)
                THEN /\ quotes' = Put(quotes, pk, row)
                     /\ Respond("quote_edit", method, 302, "success")
                ELSE \* IntegrityError out of quote.save(): nothing catches it
                     /\ UNCHANGED quotes
                     /\ Respond("quote_edit", method, 500, "none")
       ELSE /\ UNCHANGED quotes
            /\ Respond("quote_edit", method, 200, "none")
    /\ UNCHANGED <<books, reviews, quoteSeq, bookSeq, reviewSeq, clock, fetching, reviewing>>

\* quote_delete without `if request.method == 'POST'`.
quote_delete_any_method(pk, method) ==
    /\ IF pk \notin DOMAIN quotes
       THEN /\ UNCHANGED quotes
            /\ Respond("quote_delete", method, 404, "none")
       ELSE /\ quotes' = Remove(quotes, {pk})
            /\ Respond("quote_delete", method, 302, "success")
    /\ UNCHANGED <<books, reviews, quoteSeq, bookSeq, reviewSeq, clock, fetching, reviewing>>

quote_delete(pk, method) ==
    /\ IF pk \notin DOMAIN quotes
       THEN /\ UNCHANGED quotes
            /\ Respond("quote_delete", method, 404, "none")
       ELSE IF method = "POST"
       THEN /\ quotes' = Remove(quotes, {pk})
            /\ Respond("quote_delete", method, 302, "success")
       ELSE /\ UNCHANGED quotes
            /\ Respond("quote_delete", method, 302, "none")
    /\ UNCHANGED <<books, reviews, quoteSeq, bookSeq, reviewSeq, clock, fetching, reviewing>>

(***************************************************************************)
(* The Wikipedia response, as requests.get hands it over: either an        *)
(* exception of requests (connection error, timeout), or a status code and *)
(* a JSON body.  The body is [has_query, has_pages, pages]: whether the    *)
(* keys 'query' and 'pages' are there, and the values of the pages dict    *)
(* in order.  A page is the keys it may hold: 'missing', 'pageid',         *)
(* 'extract' (an extract of NULL is a JSON null).                          *)
(***************************************************************************)
NO_SUMMARY == "No summary found."

\* raise_for_status() left out: no status code raises.
RaisesForNoStatus(status_code) == FALSE

\* Response.raise_for_status(): HTTPError on 4xx and 5xx.
RaisesForStatus(status_code) == status_code >= 400 /\ status_code < 600

\* page.get('pageid', -1)
PageId(page) == IF page.has_pageid THEN page.pageid ELSE -1

\* page.get('extract', 'No summary found.')
PageExtract(page) == IF page.has_extract THEN page.extract ELSE NO_SUMMARY

Outcome(status, error, summary) ==
    [status |-> status, error |-> error, summary |-> summary]

\* The checks without `summary == 'No summary found.'`.
FetchOutcomeKeepingPlaceholder(response) ==
    IF response.exception \/ RaisesForStatus(response.status_code)
    THEN Outcome(503, "external", NULL)
    ELSE LET data == response.data
         IN  IF ~data.has_query \/ ~data.has_pages \/ data.pages = <<>>
             THEN Outcome(404, "no_article", NULL)
             ELSE LET page == Head(data.pages)
                      summary == PageExtract(page)
                  IN  IF page.missing \/ PageId(page) = -1
                      THEN Outcome(404, "no_article", NULL)
                      ELSE IF ~Truthy(summary)
                      THEN Outcome(404, "no_summary", NULL)
                      ELSE Outcome(200, "none", summary)

\* The checks both fetch views make on the response, in the code's order.
FetchOutcome(response) ==
    IF response.exception \/ RaisesForStatus(response.status_code)
    THEN Outcome(503, "external", NULL)
    ELSE LET data == response.data
         IN  IF ~data.has_query \/ ~data.has_pages \/ data.pages = <<>>
             THEN Outcome(404, "no_article", NULL)
             ELSE LET page == Head(data.pages)
                      summary == PageExtract(page)
                  IN  IF page.missing \/ PageId(page) = -1
                      THEN Outcome(404, "no_article", NULL)
                      ELSE IF ~Truthy(summary) \/ summary = NO_SUMMARY
                      THEN Outcome(404, "no_summary", NULL)
                      ELSE Outcome(200, "none", summary)

\* quote.author_bio_summary = summary; quote.save(): save() writes every field
\* of the instance the view holds, and inserts the row when no row has its pk.
SaveBio(quote, summary) == [quote EXCEPT !.author_bio_summary = summary]

Fetch(view, pk, quote) == [view |-> view, pk |-> pk, quote |-> quote]

\* quote_fetch_bio up to requests.get
quote_fetch_bio(pk, method) ==
    /\ IF pk \notin DOMAIN quotes
       THEN /\ UNCHANGED fetching
            /\ Respond("quote_fetch_bio", method, 404, "none")
       ELSE IF method = "POST"
       THEN /\ fetching' = fetching \cup {Fetch("page", pk, quotes[pk])}
            /\ UNCHANGED <<resp, listing, report>>
       ELSE /\ UNCHANGED fetching
            /\ Respond("quote_fetch_bio", method, 302, "none")
    /\ UNCHANGED <<store, quoteSeq, bookSeq, reviewSeq, clock, reviewing>>

\* quote_fetch_bio from the return of requests.get
quote_fetch_bio_return(f, response) ==
    LET out == FetchOutcome(response)
    IN  /\ f \in fetching
        /\ f.view = "page"
        /\ fetching' = fetching \ {f}
        /\ IF out.status = 200
           THEN /\ quotes' = Put(quotes, f.pk, SaveBio(f.quote, out.summary))
                /\ Respond("quote_fetch_bio", "POST", 302, "success")
           ELSE /\ UNCHANGED quotes
                /\ Respond("quote_fetch_bio", "POST", 302, "error")
        /\ UNCHANGED <<books, reviews, quoteSeq, bookSeq, reviewSeq, clock, reviewing>>

(***************************************************************************)
(* QuoteViewSet (REST).  QuoteSerializer: text and author are required,    *)
(* not null and not blank; era and author_bio_summary are allow_null and   *)
(* allow_blank; date_created is read-only.                                 *)
(***************************************************************************)
QuoteSerializerValid(data) == Truthy(data.text) /\ Truthy(data.author)

\* GET /api/quotes/: Quote.objects.all(), which states no order.
QuoteViewSet_list ==
    /\ \E rows \in Perms(DOMAIN quotes) : listing' = rows
    /\ resp' = Response("QuoteViewSet.list", "GET", 200, "none", NULL)
    /\ report' = <<>>
    /\ UNCHANGED <<store, quoteSeq, bookSeq, reviewSeq, clock, fetching, reviewing>>

QuoteViewSet_create(data) ==
    /\ IF QuoteSerializerValid(data)
       THEN /\ quotes' = Put(quotes, quoteSeq,
                             Quote(data.text, data.author, data.era,
                                   data.author_bio_summary, clock))
            /\ quoteSeq' = quoteSeq + 1
            /\ Respond("QuoteViewSet.create", "POST", 201, "none")
       ELSE /\ UNCHANGED <<quotes, quoteSeq>>
            /\ Respond("QuoteViewSet.create", "POST", 400, "none")
    /\ UNCHANGED <<books, reviews, bookSeq, reviewSeq, clock, fetching, reviewing>>

QuoteViewSet_destroy(pk) ==
    /\ IF pk \in DOMAIN quotes
       THEN /\ quotes' = Remove(quotes, {pk})
            /\ Respond("QuoteViewSet.destroy", "DELETE", 204, "none")
       ELSE /\ UNCHANGED quotes
            /\ Respond("QuoteViewSet.destroy", "DELETE", 404, "none")
    /\ UNCHANGED <<books, reviews, quoteSeq, bookSeq, reviewSeq, clock, fetching, reviewing>>

\* fetch_author_bio up to requests.get
fetch_author_bio(pk) ==
    /\ IF pk \in DOMAIN quotes
       THEN /\ fetching' = fetching \cup {Fetch("api", pk, quotes[pk])}
            /\ UNCHANGED <<resp, listing, report>>
       ELSE /\ UNCHANGED fetching
            /\ Respond("fetch_author_bio", "POST", 404, "none")
    /\ UNCHANGED <<store, quoteSeq, bookSeq, reviewSeq, clock, reviewing>>

\* fetch_author_bio from the return of requests.get
fetch_author_bio_return(f, response) ==
    LET out == FetchOutcome(response)
    IN  /\ f \in fetching
        /\ f.view = "api"
        /\ fetching' = fetching \ {f}
        /\ IF out.status = 200
           THEN quotes' = Put(quotes, f.pk, SaveBio(f.quote, out.summary))
           ELSE UNCHANGED quotes
        /\ resp' = Response("fetch_author_bio", "POST", out.status, out.error, out.summary)
        /\ listing' = <<>>
        /\ report' = <<>>
        /\ UNCHANGED <<books, reviews, quoteSeq, bookSeq, reviewSeq, clock, reviewing>>

(***************************************************************************)
(* QuoteReportView: Quote.objects.values('era')                            *)
(*   .annotate(quote_count=Count('id')).order_by('-quote_count')           *)
(***************************************************************************)
\* COUNT(era) instead of COUNT(id): SQL counts no NULL, so the NULL group holds 0.
EraGroupsCountingEra ==
    {[era |-> e,
      quote_count |-> IF e = NULL THEN 0
                      ELSE Cardinality({id \in DOMAIN quotes : quotes[id].era = e})] :
        e \in {quotes[id].era : id \in DOMAIN quotes}}

\* GROUP BY era, COUNT(id): one row per era value, NULL being one group.
EraGroups ==
    {[era |-> e, quote_count |-> Cardinality({id \in DOMAIN quotes : quotes[id].era = e})] :
        e \in {quotes[id].era : id \in DOMAIN quotes}}

QuoteReportView_get ==
    /\ \E rows \in Perms(EraGroups) :
          report' = OrderByDesc(rows, [g \in EraGroups |-> g.quote_count])
    /\ resp' = Response("QuoteReportView.get", "GET", 200, "none", NULL)
    /\ listing' = <<>>
    /\ UNCHANGED <<store, quoteSeq, bookSeq, reviewSeq, clock, fetching, reviewing>>

\* Time passes between requests.
Tick == /\ clock' = clock + 1
        /\ UNCHANGED <<store, quoteSeq, bookSeq, reviewSeq, fetching, reviewing,
                       resp, listing, report>>

(***************************************************************************)
(* Book and Review: models.py.                                             *)
(***************************************************************************)
Book(title, author, cover_image) ==
    [title |-> title, author |-> author, cover_image |-> cover_image]

Review(book, reviewer_name, rating, body, created) ==
    [book |-> book, reviewer_name |-> reviewer_name, rating |-> rating,
     body |-> body, created_at |-> created]

\* rating = models.IntegerField(default=5)
DefaultRating == 5

\* `if 1 <= rating <= 5` of review_create and review_edit
MinRating == 1
MaxRating == 5

\* title and author are NOT NULL columns.
BookRowOk(row) == row.title # NULL /\ row.author # NULL

\* db_constraint=False: the column carries no constraint.
BookFkUnchecked(row) == TRUE

\* book = ForeignKey(Book, on_delete=CASCADE): the column carries a foreign key
\* constraint, which the database checks on every INSERT and UPDATE of a Review.
BookFkHolds(row) == row.book \in DOMAIN books

\* reviewer_name and body are NOT NULL columns.
ReviewRowOk(row) ==
    row.reviewer_name # NULL /\ row.body # NULL /\ BookFkHolds(row)

\* upload_to='book_covers/': the name the storage keeps for an uploaded file.
StoredName(file) ==
    IF file = "a.jpg" THEN "book_covers/a.jpg" ELSE "book_covers/b.jpg"

\* A cascade that does not filter on the Book.
CascadeOfAnyBook(pk) == DOMAIN reviews

\* on_delete=CASCADE: the Reviews Book.delete() deletes with Book pk.
CascadeOf(pk) == {r \in DOMAIN reviews : reviews[r].book = pk}

\* Book.delete(): the Reviews of the Book and the Book, in one transaction.
DeleteBook(pk) ==
    /\ reviews' = Remove(reviews, CascadeOf(pk))
    /\ books' = Remove(books, {pk})

(***************************************************************************)
(* A rating as a form or JSON field holds it: a sequence of characters;    *)
(* ABSENT is a missing key (None).  PyInt is int() of Python on it:        *)
(* surrounding whitespace is dropped, one sign is allowed, and what is     *)
(* left must be one or more decimal digits.                                *)
(***************************************************************************)
ABSENT == <<NULL>>

Digits == <<"0", "1", "2", "3", "4", "5", "6", "7", "8", "9">>

IsDigit(c) == \E i \in DOMAIN Digits : Digits[i] = c

DigitValue(c) == (CHOOSE i \in DOMAIN Digits : Digits[i] = c) - 1

RECURSIVE LStrip(_)
LStrip(s) == IF s # <<>> /\ Head(s) = " " THEN LStrip(Tail(s)) ELSE s

RECURSIVE RStrip(_)
RStrip(s) ==
    IF s # <<>> /\ s[Len(s)] = " " THEN RStrip(SubSeq(s, 1, Len(s) - 1)) ELSE s

RECURSIVE Decimal(_)
Decimal(s) ==
    IF s = <<>> THEN 0
    ELSE 10 * Decimal(SubSeq(s, 1, Len(s) - 1)) + DigitValue(s[Len(s)])

Parsed(error, value) == [error |-> error, value |-> value]

PyInt(raw) ==
    IF raw = ABSENT THEN Parsed("TypeError", 0)
    ELSE LET s == RStrip(LStrip(raw))
             signed == s # <<>> /\ Head(s) \in {"-", "+"}
             digits == IF signed THEN Tail(s) ELSE s
         IN  IF digits = <<>> \/ \E i \in DOMAIN digits : ~IsDigit(digits[i])
             THEN Parsed("ValueError", 0)
             ELSE Parsed("none", IF signed /\ Head(s) = "-"
                                 THEN 0 - Decimal(digits) ELSE Decimal(digits))

\* bool(rating) of a form value
TruthyRaw(raw) == raw # ABSENT /\ raw # <<>>

(***************************************************************************)
(* Server-rendered book views.                                             *)
(***************************************************************************)
\* .order_by('-created_at') over Reviews the database enumerates as `rows`.
ReviewsNewestFirst(rows) ==
    OrderByDesc(rows, [r \in DOMAIN reviews |-> reviews[r].created_at])

book_detail(pk, method) ==
    /\ IF pk \notin DOMAIN books
       THEN Respond("book_detail", method, 404, "none")
       ELSE /\ \E rows \in Perms(CascadeOf(pk)) :
                  listing' = ReviewsNewestFirst(rows)
            /\ resp' = Response("book_detail", method, 200, "none", NULL)
            /\ report' = <<>>
    /\ UNCHANGED <<store, quoteSeq, bookSeq, reviewSeq, clock, fetching, reviewing>>

book_create(method, form, file) ==
    /\ IF method = "POST" /\ Truthy(form.title) /\ Truthy(form.author)
       THEN /\ books' = Put(books, bookSeq,
                            Book(form.title, form.author,
                                 IF Truthy(file) THEN StoredName(file) ELSE NULL))
            /\ bookSeq' = bookSeq + 1
            /\ Respond("book_create", method, 302, "success")
       ELSE /\ UNCHANGED <<books, bookSeq>>
            /\ Respond("book_create", method, 200,
                       IF method = "POST" THEN "error" ELSE "none")
    /\ UNCHANGED <<quotes, reviews, quoteSeq, reviewSeq, clock, fetching, reviewing>>

\* book_edit without `if cover_image:`: book.cover_image is assigned whatever
\* request.FILES.get returned.
book_edit_always_assigns(pk, method, form, file) ==
    /\ IF pk \notin DOMAIN books
       THEN /\ UNCHANGED books
            /\ Respond("book_edit", method, 404, "none")
       ELSE IF method = "POST"
       THEN LET row == [books[pk] EXCEPT
                          !.title = form.title,
                          !.author = form.author,
                          !.cover_image = IF Truthy(file) THEN StoredName(file) ELSE NULL]
            IN  IF BookRowOk(row)
                THEN /\ books' = Put(books, pk, row)
                     /\ Respond("book_edit", method, 302, "success")
                ELSE /\ UNCHANGED books
                     /\ Respond("book_edit", method, 500, "none")
       ELSE /\ UNCHANGED books
            /\ Respond("book_edit", method, 200, "none")
    /\ UNCHANGED <<quotes, reviews, quoteSeq, bookSeq, reviewSeq, clock, fetching, reviewing>>

book_edit(pk, method, form, file) ==
    /\ IF pk \notin DOMAIN books
       THEN /\ UNCHANGED books
            /\ Respond("book_edit", method, 404, "none")
       ELSE IF method = "POST"
       THEN LET row == [books[pk] EXCEPT
                          !.title = form.title,
                          !.author = form.author,
                          !.cover_image = IF Truthy(file) THEN StoredName(file) ELSE @]
            IN  IF BookRowOk(row)
                THEN /\ books' = Put(books, pk, row)
                     /\ Respond("book_edit", method, 302, "success")
                ELSE \* IntegrityError out of book.save(): nothing catches it
                     /\ UNCHANGED books
                     /\ Respond("book_edit", method, 500, "none")
       ELSE /\ UNCHANGED books
            /\ Respond("book_edit", method, 200, "none")
    /\ UNCHANGED <<quotes, reviews, quoteSeq, bookSeq, reviewSeq, clock, fetching, reviewing>>

book_delete(pk, method) ==
    /\ IF pk \notin DOMAIN books
       THEN /\ UNCHANGED <<books, reviews>>
            /\ Respond("book_delete", method, 404, "none")
       ELSE IF method = "POST"
       THEN /\ DeleteBook(pk)
            /\ Respond("book_delete", method, 302, "success")
       ELSE /\ UNCHANGED <<books, reviews>>
            /\ Respond("book_delete", method, 302, "none")
    /\ UNCHANGED <<quotes, quoteSeq, bookSeq, reviewSeq, clock, fetching, reviewing>>

(***************************************************************************)
(* Server-rendered review views.  review_create and review_edit read a row *)
(* (the Book, the Review) in one statement and write in a later one: a     *)
(* request between the two is in `reviewing`, holding the instance read.   *)
(***************************************************************************)
ReviewRequest(op, pk, row) == [op |-> op, pk |-> pk, row |-> row]

\* review_create up to the form handling: get_object_or_404(Book, pk=book_id)
review_create(book_id, method) ==
    /\ IF book_id \notin DOMAIN books
       THEN /\ UNCHANGED reviewing
            /\ Respond("review_create", method, 404, "none")
       ELSE IF method = "POST"
       THEN /\ reviewing' = reviewing \cup
                   {ReviewRequest("review_create", 0,
                                  Review(book_id, NULL, DefaultRating, NULL, 0))}
            /\ UNCHANGED <<resp, listing, report>>
       ELSE /\ UNCHANGED reviewing
            /\ Respond("review_create", method, 200, "none")
    /\ UNCHANGED <<store, quoteSeq, bookSeq, reviewSeq, clock, fetching>>

\* review_create from the form handling on
review_create_post(r, form) ==
    LET rating == PyInt(form.rating)
        row == Review(r.row.book, form.reviewer_name, rating.value, form.body, clock)
    IN  /\ r \in reviewing
        /\ r.op = "review_create"
        /\ reviewing' = reviewing \ {r}
        /\ IF Truthy(form.reviewer_name) /\ TruthyRaw(form.rating) /\ Truthy(form.body)
           THEN IF rating.error = "ValueError"
                THEN /\ UNCHANGED <<reviews, reviewSeq>>
                     /\ Respond("review_create", "POST", 200, "error")
                ELSE IF MinRating <= rating.value /\ rating.value <= MaxRating
                THEN IF ReviewRowOk(row)
                     THEN /\ reviews' = Put(reviews, reviewSeq, row)
                          /\ reviewSeq' = reviewSeq + 1
                          /\ Respond("review_create", "POST", 302, "success")
                     ELSE \* IntegrityError out of Review.objects.create
                          /\ UNCHANGED <<reviews, reviewSeq>>
                          /\ Respond("review_create", "POST", 500, "none")
                ELSE /\ UNCHANGED <<reviews, reviewSeq>>
                     /\ Respond("review_create", "POST", 200, "error")
           ELSE /\ UNCHANGED <<reviews, reviewSeq>>
                /\ Respond("review_create", "POST", 200, "error")
        /\ UNCHANGED <<quotes, books, quoteSeq, bookSeq, clock, fetching>>

\* review_edit up to the form handling: get_object_or_404(Review, pk=pk)
review_edit(pk, method) ==
    /\ IF pk \notin DOMAIN reviews
       THEN /\ UNCHANGED reviewing
            /\ Respond("review_edit", method, 404, "none")
       ELSE IF method = "POST"
       THEN /\ reviewing' = reviewing \cup {ReviewRequest("review_edit", pk, reviews[pk])}
            /\ UNCHANGED <<resp, listing, report>>
       ELSE /\ UNCHANGED reviewing
            /\ Respond("review_edit", method, 200, "none")
    /\ UNCHANGED <<store, quoteSeq, bookSeq, reviewSeq, clock, fetching>>

\* review_edit from the form handling on
review_edit_post(r, form) ==
    LET rating == PyInt(form.rating)
        row == [r.row EXCEPT !.reviewer_name = form.reviewer_name,
                             !.body = form.body,
                             !.rating = rating.value]
    IN  /\ r \in reviewing
        /\ r.op = "review_edit"
        /\ reviewing' = reviewing \ {r}
        /\ IF rating.error = "TypeError"
           THEN \* int(None): the view catches ValueError alone
                /\ UNCHANGED reviews
                /\ Respond("review_edit", "POST", 500, "none")
           ELSE IF rating.error = "ValueError"
           THEN /\ UNCHANGED reviews
                /\ Respond("review_edit", "POST", 200, "error")
           ELSE IF MinRating <= rating.value /\ rating.value <= MaxRating
           THEN IF ReviewRowOk(row)
                THEN /\ reviews' = Put(reviews, r.pk, row)
                     /\ Respond("review_edit", "POST", 302, "success")
                ELSE \* IntegrityError out of review.save()
                     /\ UNCHANGED reviews
                     /\ Respond("review_edit", "POST", 500, "none")
           ELSE /\ UNCHANGED reviews
                /\ Respond("review_edit", "POST", 200, "error")
        /\ UNCHANGED <<quotes, books, quoteSeq, bookSeq, reviewSeq, clock, fetching>>

\* review_delete with Review.objects.filter(pk=pk).delete() in place of
\* get_object_or_404: a Review that is not stored is redirected like a stored one.
review_delete_unchecked(pk, method) ==
    /\ IF method = "POST"
       THEN /\ reviews' = Remove(reviews, {pk} \cap DOMAIN reviews)
            /\ Respond("review_delete", method, 302, "success")
       ELSE /\ UNCHANGED reviews
            /\ Respond("review_delete", method, 302, "none")
    /\ UNCHANGED <<quotes, books, quoteSeq, bookSeq, reviewSeq, clock, fetching, reviewing>>

review_delete(pk, method) ==
    /\ IF pk \notin DOMAIN reviews
       THEN /\ UNCHANGED reviews
            /\ Respond("review_delete", method, 404, "none")
       ELSE IF method = "POST"
       THEN /\ reviews' = Remove(reviews, {pk})
            /\ Respond("review_delete", method, 302, "success")
       ELSE /\ UNCHANGED reviews
            /\ Respond("review_delete", method, 302, "none")
    /\ UNCHANGED <<quotes, books, quoteSeq, bookSeq, reviewSeq, clock, fetching, reviewing>>

(***************************************************************************)
(* BookViewSet (REST).                                                     *)
(***************************************************************************)
\* request.build_absolute_uri(obj.cover_image.url): the host of the request and
\* the media URL before the stored name.
build_absolute_uri(name) == "http://testserver/media/" \o name

\* BookSerializer.get_cover_image_url; BookViewSet.get_serializer_context puts
\* the request in the context, so the URL is the absolute one.
get_cover_image_url(obj) ==
    IF Truthy(obj.cover_image) THEN build_absolute_uri(obj.cover_image) ELSE NULL

\* The response that carries the BookSerializer representation of `obj`.
BookResponse(op, method, status, obj) ==
    [Response(op, method, status, "none", NULL) EXCEPT
        !.cover_image_url = get_cover_image_url(obj)]

\* GET /api/books/{pk}/: BookSerializer nests `reviews`, the reverse relation
\* book.reviews.all(), which states no order.
BookViewSet_retrieve(pk) ==
    /\ IF pk \notin DOMAIN books
       THEN Respond("BookViewSet.retrieve", "GET", 404, "none")
       ELSE /\ \E rows \in Perms(CascadeOf(pk)) : listing' = rows
            /\ resp' = BookResponse("BookViewSet.retrieve", "GET", 200, books[pk])
            /\ report' = <<>>
    /\ UNCHANGED <<store, quoteSeq, bookSeq, reviewSeq, clock, fetching, reviewing>>

\* A key that the payload does not hold (rest_framework.fields.empty), as
\* against a key that holds null.
empty == "empty"

\* BookSerializer: title and author are required and not blank; cover_image is
\* an ImageField that is not required and allows null.
BookSerializerValid(data) == Truthy(data.title) /\ Truthy(data.author)

\* The cover_image the serializer writes: the stored name of an upload, null for
\* an explicit null, and `current` for a payload without the key.
ValidatedCover(data, current) ==
    IF data.cover_image = empty THEN current
    ELSE IF data.cover_image = NULL THEN NULL
    ELSE StoredName(data.cover_image)

\* POST /api/books/
BookViewSet_create(data) ==
    /\ IF BookSerializerValid(data)
       THEN LET row == Book(data.title, data.author, ValidatedCover(data, NULL))
            IN  /\ books' = Put(books, bookSeq, row)
                /\ bookSeq' = bookSeq + 1
                /\ resp' = BookResponse("BookViewSet.create", "POST", 201, row)
                /\ listing' = <<>>
                /\ report' = <<>>
       ELSE /\ UNCHANGED <<books, bookSeq>>
            /\ Respond("BookViewSet.create", "POST", 400, "none")
    /\ UNCHANGED <<quotes, reviews, quoteSeq, reviewSeq, clock, fetching, reviewing>>

\* PUT /api/books/{pk}/
BookViewSet_update(pk, data) ==
    /\ IF pk \notin DOMAIN books
       THEN /\ UNCHANGED books
            /\ Respond("BookViewSet.update", "PUT", 404, "none")
       ELSE IF BookSerializerValid(data)
       THEN LET row == Book(data.title, data.author,
                            ValidatedCover(data, books[pk].cover_image))
            IN  /\ books' = Put(books, pk, row)
                /\ resp' = BookResponse("BookViewSet.update", "PUT", 200, row)
                /\ listing' = <<>>
                /\ report' = <<>>
       ELSE /\ UNCHANGED books
            /\ Respond("BookViewSet.update", "PUT", 400, "none")
    /\ UNCHANGED <<quotes, reviews, quoteSeq, bookSeq, reviewSeq, clock, fetching, reviewing>>

BookViewSet_destroy(pk) ==
    /\ IF pk \in DOMAIN books
       THEN /\ DeleteBook(pk)
            /\ Respond("BookViewSet.destroy", "DELETE", 204, "none")
       ELSE /\ UNCHANGED <<books, reviews>>
            /\ Respond("BookViewSet.destroy", "DELETE", 404, "none")
    /\ UNCHANGED <<quotes, quoteSeq, bookSeq, reviewSeq, clock, fetching, reviewing>>

(***************************************************************************)
(* ReviewViewSet (REST).  ReviewSerializer is a plain ModelSerializer:     *)
(* book is a primary key that must name a stored Book; reviewer_name and   *)
(* body are required and not blank; rating is an IntegerField that is not  *)
(* required (the model field has a default) and carries no range;          *)
(* created_at is read-only.  data.book = 0 is a payload without `book`.    *)
(***************************************************************************)
ReviewSerializerValid(data) ==
    /\ data.book \in DOMAIN books
    /\ Truthy(data.reviewer_name)
    /\ Truthy(data.body)
    /\ data.rating # ABSENT => PyInt(data.rating).error = "none"

\* GET /api/reviews/ and GET /api/reviews/?book_id=n
ReviewViewSet_list(filtered, book_id) ==
    /\ \E rows \in Perms({r \in DOMAIN reviews : filtered => reviews[r].book = book_id}) :
          listing' = ReviewsNewestFirst(rows)
    /\ resp' = Response("ReviewViewSet.list", "GET", 200, "none", NULL)
    /\ report' = <<>>
    /\ UNCHANGED <<store, quoteSeq, bookSeq, reviewSeq, clock, fetching, reviewing>>

\* POST /api/reviews/ up to serializer.save()
ReviewViewSet_create(data) ==
    /\ IF ReviewSerializerValid(data)
       THEN /\ reviewing' = reviewing \cup
                   {ReviewRequest("ReviewViewSet.create", 0,
                        Review(data.book, data.reviewer_name,
                               IF data.rating = ABSENT THEN DefaultRating
                               ELSE PyInt(data.rating).value,
                               data.body, 0))}
            /\ UNCHANGED <<resp, listing, report>>
       ELSE /\ UNCHANGED reviewing
            /\ Respond("ReviewViewSet.create", "POST", 400, "none")
    /\ UNCHANGED <<store, quoteSeq, bookSeq, reviewSeq, clock, fetching>>

\* POST /api/reviews/: serializer.save()
ReviewViewSet_create_save(r) ==
    LET row == [r.row EXCEPT !.created_at = clock]
    IN  /\ r \in reviewing
        /\ r.op = "ReviewViewSet.create"
        /\ reviewing' = reviewing \ {r}
        /\ IF ReviewRowOk(row)
           THEN /\ reviews' = Put(reviews, reviewSeq, row)
                /\ reviewSeq' = reviewSeq + 1
                /\ Respond("ReviewViewSet.create", "POST", 201, "none")
           ELSE /\ UNCHANGED <<reviews, reviewSeq>>
                /\ Respond("ReviewViewSet.create", "POST", 500, "none")
        /\ UNCHANGED <<quotes, books, quoteSeq, bookSeq, clock, fetching>>

\* PUT /api/reviews/{pk}/ up to serializer.save()
ReviewViewSet_update(pk, data) ==
    /\ IF pk \notin DOMAIN reviews
       THEN /\ UNCHANGED reviewing
            /\ Respond("ReviewViewSet.update", "PUT", 404, "none")
       ELSE IF ReviewSerializerValid(data)
       THEN /\ reviewing' = reviewing \cup
                   {ReviewRequest("ReviewViewSet.update", pk,
                        [reviews[pk] EXCEPT
                            !.book = data.book,
                            !.reviewer_name = data.reviewer_name,
                            !.rating = IF data.rating = ABSENT THEN @
                                       ELSE PyInt(data.rating).value,
                            !.body = data.body])}
            /\ UNCHANGED <<resp, listing, report>>
       ELSE /\ UNCHANGED reviewing
            /\ Respond("ReviewViewSet.update", "PUT", 400, "none")
    /\ UNCHANGED <<store, quoteSeq, bookSeq, reviewSeq, clock, fetching>>

\* PUT /api/reviews/{pk}/: serializer.save()
ReviewViewSet_update_save(r) ==
    /\ r \in reviewing
    /\ r.op = "ReviewViewSet.update"
    /\ reviewing' = reviewing \ {r}
    /\ IF ReviewRowOk(r.row)
       THEN /\ reviews' = Put(reviews, r.pk, r.row)
            /\ Respond("ReviewViewSet.update", "PUT", 200, "none")
       ELSE /\ UNCHANGED reviews
            /\ Respond("ReviewViewSet.update", "PUT", 500, "none")
    /\ UNCHANGED <<quotes, books, quoteSeq, bookSeq, reviewSeq, clock, fetching>>

ReviewViewSet_destroy(pk) ==
    /\ IF pk \in DOMAIN reviews
       THEN /\ reviews' = Remove(reviews, {pk})
            /\ Respond("ReviewViewSet.destroy", "DELETE", 204, "none")
       ELSE /\ UNCHANGED reviews
            /\ Respond("ReviewViewSet.destroy", "DELETE", 404, "none")
    /\ UNCHANGED <<quotes, books, quoteSeq, bookSeq, reviewSeq, clock, fetching, reviewing>>

(***************************************************************************)
(* The state after migration: empty tables, no request in flight.          *)
(***************************************************************************)
Init ==
    /\ quotes = EmptyTable
    /\ books = EmptyTable
    /\ reviews = EmptyTable
    /\ quoteSeq = 1
    /\ bookSeq = 1
    /\ reviewSeq = 1
    /\ clock = 0
    /\ fetching = {}
    /\ reviewing = {}
    /\ resp = Response("none", "none", 0, "none", NULL)
    /\ listing = <<>>
    /\ report = <<>>

(***************************************************************************)
(* The requests the specifications below send.                             *)
(***************************************************************************)
Methods == {"GET", "POST"}

\* A text field of a form or a payload: missing, empty, or a value.
Field == {NULL, "", "a", "b"}

Eras == {NULL, "", "Romantic", "Modern"}

QuoteForm(text, author, era) == [text |-> text, author |-> author, era |-> era]

QuoteData(text, author, era, bio) ==
    [text |-> text, author |-> author, era |-> era, author_bio_summary |-> bio]

BookForm(title, author) == [title |-> title, author |-> author]

ReviewForm(reviewer_name, rating, body) ==
    [reviewer_name |-> reviewer_name, rating |-> rating, body |-> body]

ReviewData(book, reviewer_name, rating, body) ==
    [book |-> book, reviewer_name |-> reviewer_name, rating |-> rating, body |-> body]

Files == {NULL, "a.jpg", "b.jpg"}

BookData(title, author, cover_image) ==
    [title |-> title, author |-> author, cover_image |-> cover_image]

\* Ratings as typed: missing, empty, not a number, below, in and above 1..5.
Ratings ==
    {ABSENT, <<>>, <<"x">>, <<"0">>, <<"1">>, <<"5">>, <<"6">>, <<"-", "1">>,
     <<" ", "3">>, <<"3", "x">>}

Page(missing, has_pageid, pageid, has_extract, extract) ==
    [missing |-> missing, has_pageid |-> has_pageid, pageid |-> pageid,
     has_extract |-> has_extract, extract |-> extract]

\* Pages of an article with every extract, and pages of no article (marked
\* missing, or with no page id or the page id -1) with and without an extract.
Pages ==
    {Page(FALSE, TRUE, 736, ex # "absent", IF ex = "absent" THEN NULL ELSE ex) :
        ex \in {"absent", NULL, "", NO_SUMMARY, "bio1", "bio2"}}
    \cup
    {Page(m, id # 0, id, he, IF he THEN "bio1" ELSE NULL) :
        m \in BOOLEAN, id \in {0, -1, 736}, he \in BOOLEAN}

Data(has_query, has_pages, pages) ==
    [has_query |-> has_query, has_pages |-> has_pages, pages |-> pages]

Bodies ==
    {Data(FALSE, FALSE, <<>>), Data(TRUE, FALSE, <<>>), Data(TRUE, TRUE, <<>>)}
        \cup {Data(TRUE, TRUE, <<p>>) : p \in Pages}

WikipediaResponse(exception, status_code, data) ==
    [exception |-> exception, status_code |-> status_code, data |-> data]

\* A requests exception; an error status, with the body of an error page or
\* of an article; a 200 with every body.
Responses ==
    {WikipediaResponse(TRUE, 0, Data(FALSE, FALSE, <<>>)),
     WikipediaResponse(FALSE, 404, Data(FALSE, FALSE, <<>>)),
     WikipediaResponse(FALSE, 503, Data(TRUE, TRUE, <<Page(FALSE, TRUE, 736, TRUE, "bio1")>>))}
        \cup {WikipediaResponse(FALSE, 200, d) : d \in Bodies}

(***************************************************************************)
(* SpecReport: quotes created on both surfaces with every era value,       *)
(* deleted, and reported.  The report reads era alone, so text and author  *)
(* are held fixed.                                                         *)
(***************************************************************************)
MaxReportQuotes == 4

NextReport ==
    \/ \E era \in Eras :
          quoteSeq <= MaxReportQuotes /\ quote_create("POST", QuoteForm("a", "a", era))
    \/ \E era \in Eras :
          quoteSeq <= MaxReportQuotes /\ QuoteViewSet_create(QuoteData("a", "a", era, NULL))
    \/ \E pk \in DOMAIN quotes : quote_delete(pk, "POST")
    \/ QuoteReportView_get

SpecReport == Init /\ [][NextReport]_vars

RECURSIVE SumCounts(_)
SumCounts(rows) ==
    IF rows = <<>> THEN 0 ELSE Head(rows).quote_count + SumCounts(Tail(rows))

QuotesOfEra(e) == {id \in DOMAIN quotes : quotes[id].era = e}

\* C3: the era report holds exactly one {era, quote_count} entry per era value
\* stored (NULL being one of them), each quote_count is the number of Quotes of
\* that era, the counts add up to the number of Quotes, and the entries are in
\* non-increasing order of quote_count.
EraReportCorrect ==
    resp.op = "QuoteReportView.get" =>
        /\ {report[i].era : i \in DOMAIN report} = {quotes[id].era : id \in DOMAIN quotes}
        /\ \A i, j \in DOMAIN report : i # j => report[i].era # report[j].era
        /\ \A i \in DOMAIN report :
              report[i].quote_count = Cardinality(QuotesOfEra(report[i].era))
        /\ SumCounts(report) = Cardinality(DOMAIN quotes)
        /\ \A i, j \in DOMAIN report :
              i < j => report[i].quote_count >= report[j].quote_count

\* The report of eras {Romantic, Romantic, Modern, NULL}: three groups, Romantic first.
EraReportWitness ==
    /\ resp.op = "QuoteReportView.get"
    /\ Cardinality(DOMAIN quotes) = 4
    /\ Cardinality(QuotesOfEra("Romantic")) = 2
    /\ Cardinality(QuotesOfEra("Modern")) = 1
    /\ Cardinality(QuotesOfEra(NULL)) = 1
    /\ Len(report) = 3
    /\ report[1] = [era |-> "Romantic", quote_count |-> 2]

(***************************************************************************)
(* SpecList: quotes created at different times, deleted, and listed on     *)
(* both surfaces.  The lists read date_created alone.                      *)
(***************************************************************************)
MaxListQuotes == 3
MaxListClock == 2

NextList ==
    \/ quoteSeq <= MaxListQuotes /\ quote_create("POST", QuoteForm("a", "a", NULL))
    \/ clock < MaxListClock /\ Tick
    \/ \E pk \in DOMAIN quotes : quote_delete(pk, "POST")
    \/ quote_list("GET")
    \/ QuoteViewSet_list

SpecList == Init /\ [][NextList]_vars

\* `ids` holds each id of `table` once and no other.
ListsExactly(ids, all) ==
    /\ {ids[i] : i \in DOMAIN ids} = all
    /\ Len(ids) = Cardinality(all)

\* C4: every quote list view, GET /api/quotes/ as well as the quote_list page,
\* returns all stored Quotes ordered by date_created descending.
QuoteListsNewestFirst ==
    resp.op \in {"quote_list", "QuoteViewSet.list"} =>
        /\ ListsExactly(listing, DOMAIN quotes)
        /\ \A i, j \in DOMAIN listing :
              i < j => quotes[listing[i]].date_created >= quotes[listing[j]].date_created

(***************************************************************************)
(* SpecBio: one author's quotes, created with and without a biography and  *)
(* deleted while biography fetches of both surfaces are in flight, and     *)
(* every Wikipedia response.                                               *)
(***************************************************************************)
MaxBioQuotes == 1
MaxFetching == 1

NextBio ==
    \/ quoteSeq <= MaxBioQuotes /\ quote_create("POST", QuoteForm("a", "a", NULL))
    \/ \E bio \in {"", "old"} :
          quoteSeq <= MaxBioQuotes /\ QuoteViewSet_create(QuoteData("a", "a", NULL, bio))
    \/ \E pk \in DOMAIN quotes : quote_delete(pk, "POST")
    \/ \E pk \in 1..MaxBioQuotes, method \in Methods :
          Cardinality(fetching) < MaxFetching /\ quote_fetch_bio(pk, method)
    \/ \E f \in fetching, response \in Responses : quote_fetch_bio_return(f, response)
    \/ \E pk \in 1..MaxBioQuotes :
          Cardinality(fetching) < MaxFetching /\ fetch_author_bio(pk)
    \/ \E f \in fetching, response \in Responses : fetch_author_bio_return(f, response)

SpecBio == Init /\ [][NextBio]_vars

(***************************************************************************)
(* What a response holds, in the words of the specification.               *)
(***************************************************************************)
ServiceFailed(response) ==
    response.exception \/ response.status_code # 200

NoPageList(response) ==
    ~response.data.has_query \/ ~response.data.has_pages \/ Len(response.data.pages) = 0

FirstPage(response) == response.data.pages[1]

PageMissing(response) ==
    \/ FirstPage(response).missing
    \/ ~FirstPage(response).has_pageid
    \/ FirstPage(response).pageid = -1

NoExtract(response) ==
    \/ ~FirstPage(response).has_extract
    \/ FirstPage(response).extract \in {NULL, "", NO_SUMMARY}

\* A matching article with a valid extract.
HoldsExtract(response) ==
    /\ ~ServiceFailed(response)
    /\ ~NoPageList(response)
    /\ ~PageMissing(response)
    /\ ~NoExtract(response)

\* C6: a biography fetch (either surface) whose response holds no matching
\* article with a valid extract leaves the stored Quotes as they are; one whose
\* response holds a matching article with a valid extract succeeds and leaves
\* the Quote stored with author_bio_summary equal to that extract.
BioFetchStoresExtract ==
    [][\A f \in fetching, response \in Responses :
          (quote_fetch_bio_return(f, response) \/ fetch_author_bio_return(f, response)) =>
              IF HoldsExtract(response)
              THEN /\ f.pk \in DOMAIN quotes'
                   /\ quotes'[f.pk].author_bio_summary = FirstPage(response).extract
                   /\ resp'.status = 200 \/ resp'.notice = "success"
              ELSE /\ quotes' = quotes
                   /\ resp'.status # 200 /\ resp'.notice # "success"]_vars

\* A fetch has stored its extract over the REST surface.
BioFetchWitness ==
    /\ resp.op = "fetch_author_bio"
    /\ resp.status = 200
    /\ resp.summary = "bio2"
    /\ \E pk \in DOMAIN quotes : quotes[pk].author_bio_summary = "bio2"

MaxCascadeBooks == 2
MaxCascadeReviews == 2
MaxCascadeQuotes == 1

NextCascade ==
    \/ quoteSeq <= MaxCascadeQuotes /\ quote_create("POST", QuoteForm("a", "a", NULL))
    \/ bookSeq <= MaxCascadeBooks /\ book_create("POST", BookForm("a", "a"), NULL)
    \/ \E pk \in 1..MaxCascadeBooks : book_delete(pk, "POST")
    \/ \E pk \in 1..MaxCascadeBooks : BookViewSet_destroy(pk)
    \/ \E book_id \in 1..MaxCascadeBooks :
          reviewing = {} /\ review_create(book_id, "POST")
    \/ \E r \in reviewing :
          reviewSeq <= MaxCascadeReviews
              /\ review_create_post(r, ReviewForm("a", <<"5">>, "a"))

SpecCascade == Init /\ [][NextCascade]_vars

\* C1: deleting Book pk (DELETE on the API, POST to the delete page) removes
\* the Book and exactly the Reviews whose book is pk: afterwards no Review
\* references pk, and every Review of another Book, every other Book and every
\* Quote is as before.
BookDeleteCascades ==
    [][\A pk \in DOMAIN books :
          (book_delete(pk, "POST") \/ BookViewSet_destroy(pk)) =>
              /\ pk \notin DOMAIN books'
              /\ \A r \in DOMAIN reviews' : reviews'[r].book # pk
              /\ DOMAIN reviews' = {r \in DOMAIN reviews : reviews[r].book # pk}
              /\ \A r \in DOMAIN reviews' : reviews'[r] = reviews[r]
              /\ DOMAIN books' = DOMAIN books \ {pk}
              /\ \A b \in DOMAIN books' : books'[b] = books[b]
              /\ quotes' = quotes]_vars

\* A Book was deleted with its Review; the Review of the other Book, and the
\* Quote, are there.
BookDeleteWitness ==
    /\ resp.op \in {"book_delete", "BookViewSet.destroy"}
    /\ resp.status \in {302, 204}
    /\ Cardinality(DOMAIN books) = 1
    /\ Cardinality(DOMAIN reviews) = 1
    /\ reviewSeq = 3
    /\ DOMAIN quotes # {}

(***************************************************************************)
(* SpecOrphan: reviews created and updated on both surfaces, each request  *)
(* in flight between its read and its write while books are deleted and    *)
(* other review requests run.  Ratings are held valid.                     *)
(***************************************************************************)
MaxOrphanBooks == 2
MaxOrphanReviews == 1
MaxReviewing == 1

NextOrphan ==
    \/ bookSeq <= MaxOrphanBooks /\ book_create("POST", BookForm("a", "a"), NULL)
    \/ \E pk \in 1..MaxOrphanBooks : book_delete(pk, "POST")
    \/ \E book_id \in 0..MaxOrphanBooks, method \in Methods :
          Cardinality(reviewing) < MaxReviewing /\ review_create(book_id, method)
    \/ \E r \in reviewing :
          reviewSeq <= MaxOrphanReviews
              /\ review_create_post(r, ReviewForm("a", <<"5">>, "a"))
    \/ \E pk \in 1..MaxOrphanReviews :
          Cardinality(reviewing) < MaxReviewing /\ review_edit(pk, "POST")
    \/ \E r \in reviewing : review_edit_post(r, ReviewForm("a", <<"5">>, "a"))
    \/ \E book_id \in 0..MaxOrphanBooks :
          Cardinality(reviewing) < MaxReviewing
              /\ ReviewViewSet_create(ReviewData(book_id, "a", <<"5">>, "a"))
    \/ \E r \in reviewing :
          reviewSeq <= MaxOrphanReviews /\ ReviewViewSet_create_save(r)
    \/ \E pk \in 1..MaxOrphanReviews, book_id \in 0..MaxOrphanBooks :
          Cardinality(reviewing) < MaxReviewing
              /\ ReviewViewSet_update(pk, ReviewData(book_id, "a", <<"5">>, "a"))
    \/ \E r \in reviewing : ReviewViewSet_update_save(r)

SpecOrphan == Init /\ [][NextOrphan]_vars

\* Every stored Review references a stored Book.
NoOrphanReview == \A r \in DOMAIN reviews : reviews[r].book \in DOMAIN books

\* C8: in every reachable state, with Review creates and updates interleaved
\* with deletes of their Book, every stored Review references a stored Book;
\* and a Review create or update that names a Book that is not stored, when it
\* is received or when it writes, is rejected and leaves the Reviews as they are.
ReviewsReferenceBooks ==
    /\ []NoOrphanReview
    /\ [][/\ \A book_id \in 0..MaxOrphanBooks \ DOMAIN books :
                /\ review_create(book_id, "POST") =>
                      reviewing' = reviewing /\ resp'.status = 404
                /\ ReviewViewSet_create(ReviewData(book_id, "a", <<"5">>, "a")) =>
                      reviewing' = reviewing /\ resp'.status = 400
                /\ \A pk \in DOMAIN reviews :
                      ReviewViewSet_update(pk, ReviewData(book_id, "a", <<"5">>, "a")) =>
                          reviewing' = reviewing /\ resp'.status = 400
          /\ \A r \in reviewing :
                (/\ r.row.book \notin DOMAIN books
                 /\ \/ review_create_post(r, ReviewForm("a", <<"5">>, "a"))
                    \/ review_edit_post(r, ReviewForm("a", <<"5">>, "a"))
                    \/ ReviewViewSet_create_save(r)
                    \/ ReviewViewSet_update_save(r)) =>
                    reviews' = reviews /\ resp'.status = 500]_vars

\* A review_create read its Book, the Book was deleted, and the INSERT failed.
OrphanRejectedWitness ==
    /\ resp.op = "review_create"
    /\ resp.status = 500
    /\ bookSeq > 1
    /\ reviews = EmptyTable

(***************************************************************************)
(* SpecRating: reviews of one book created and edited on both surfaces,    *)
(* one request at a time, with every rating of Ratings.                    *)
(***************************************************************************)
MaxRatingReviews == 2

NextRating ==
    \/ bookSeq <= 1 /\ book_create("POST", BookForm("a", "a"), NULL)
    \/ reviewing = {} /\ review_create(1, "POST")
    \/ \E r \in reviewing, rating \in Ratings :
          reviewSeq <= MaxRatingReviews
              /\ review_create_post(r, ReviewForm("a", rating, "a"))
    \/ \E pk \in DOMAIN reviews : reviewing = {} /\ review_edit(pk, "POST")
    \/ \E r \in reviewing, rating \in Ratings :
          review_edit_post(r, ReviewForm("a", rating, "a"))
    \/ \E rating \in Ratings :
          reviewing = {} /\ ReviewViewSet_create(ReviewData(1, "a", rating, "a"))
    \/ \E r \in reviewing :
          reviewSeq <= MaxRatingReviews /\ ReviewViewSet_create_save(r)
    \/ \E pk \in DOMAIN reviews, rating \in Ratings :
          reviewing = {} /\ ReviewViewSet_update(pk, ReviewData(1, "a", rating, "a"))
    \/ \E r \in reviewing : ReviewViewSet_update_save(r)

SpecRating == Init /\ [][NextRating]_vars

\* C2: on both surfaces a Review create or update is accepted only with a
\* rating that is an integer in 1..5 and is rejected without a write otherwise,
\* so that after any sequence of operations every stored Review has its rating
\* in 1..5.
RatingAlwaysInRange ==
    \A r \in DOMAIN reviews : reviews[r].rating \in MinRating..MaxRating

(***************************************************************************)
(* SpecReviewList: reviews of two books created at different times,        *)
(* deleted, and listed per book on both surfaces.                          *)
(***************************************************************************)
MaxListBooks == 2
MaxListReviews == 3
MaxReviewClock == 2

NextReviewList ==
    \/ bookSeq <= MaxListBooks /\ book_create("POST", BookForm("a", "a"), NULL)
    \/ clock < MaxReviewClock /\ Tick
    \/ \E book_id \in 1..MaxListBooks :
          reviewing = {} /\ review_create(book_id, "POST")
    \/ \E r \in reviewing :
          reviewSeq <= MaxListReviews
              /\ review_create_post(r, ReviewForm("a", <<"5">>, "a"))
    \/ \E pk \in DOMAIN reviews : review_delete(pk, "POST")
    \/ \E pk \in 1..MaxListBooks : book_detail(pk, "GET")
    \/ \E pk \in 1..MaxListBooks : BookViewSet_retrieve(pk)
    \/ \E filtered \in BOOLEAN, book_id \in 1..MaxListBooks :
          ReviewViewSet_list(filtered, book_id)

SpecReviewList == Init /\ [][NextReviewList]_vars

\* C5: every listing of the reviews of one Book (the reviews nested in the
\* Book's REST representation, the book_detail page, the REST review list
\* filtered with book_id) holds exactly the Reviews of that Book, ordered by
\* created_at descending.
BookReviewsNewestFirst ==
    [][\A pk \in 1..MaxListBooks :
          (\/ book_detail(pk, "GET")
           \/ BookViewSet_retrieve(pk)
           \/ ReviewViewSet_list(TRUE, pk)) =>
              /\ ListsExactly(listing', CascadeOf(pk))
              /\ \A i, j \in DOMAIN listing' :
                    i < j => reviews[listing'[i]].created_at
                                >= reviews[listing'[j]].created_at]_vars

(***************************************************************************)
(* SpecDelete: the server-rendered views that write (create, edit, delete  *)
(* of the three entities) with valid forms, the delete paths requested     *)
(* with GET and with POST, one request at a time.                          *)
(***************************************************************************)
MaxDeleteRows == 1

NextDelete ==
    \/ quoteSeq <= MaxDeleteRows /\ quote_create("POST", QuoteForm("a", "a", NULL))
    \/ \E pk \in DOMAIN quotes : quote_edit(pk, "POST", QuoteForm("b", "a", NULL))
    \/ \E pk \in 1..MaxDeleteRows, method \in Methods : quote_delete(pk, method)
    \/ bookSeq <= MaxDeleteRows /\ book_create("POST", BookForm("a", "a"), NULL)
    \/ \E pk \in DOMAIN books : book_edit(pk, "POST", BookForm("b", "a"), NULL)
    \/ \E pk \in 1..MaxDeleteRows, method \in Methods : book_delete(pk, method)
    \/ \E book_id \in DOMAIN books : reviewing = {} /\ review_create(book_id, "POST")
    \/ \E r \in reviewing :
          reviewSeq <= MaxDeleteRows
              /\ review_create_post(r, ReviewForm("a", <<"5">>, "a"))
    \/ \E pk \in DOMAIN reviews : reviewing = {} /\ review_edit(pk, "POST")
    \/ \E r \in reviewing : review_edit_post(r, ReviewForm("b", <<"1">>, "a"))
    \/ \E pk \in 1..MaxDeleteRows, method \in Methods : review_delete(pk, method)

SpecDelete == Init /\ [][NextDelete]_vars

\* C9: on the server-rendered surface a request to a delete path with a method
\* other than POST leaves every stored Quote, Book and Review as it is and
\* redirects; a row leaves a table only in the response to a POST to a delete
\* path (of the row, or of the Book that owns the Review).
DeleteOnlyOnPost ==
    [][/\ \A pk \in 1..MaxDeleteRows, method \in Methods \ {"POST"} :
             /\ (quote_delete(pk, method) \/ book_delete(pk, method)
                    \/ review_delete(pk, method)) => store' = store
             /\ pk \in DOMAIN quotes /\ quote_delete(pk, method) => resp'.status = 302
             /\ pk \in DOMAIN books /\ book_delete(pk, method) => resp'.status = 302
             /\ pk \in DOMAIN reviews /\ review_delete(pk, method) => resp'.status = 302
       /\ DOMAIN quotes \ DOMAIN quotes' # {} =>
             resp'.op = "quote_delete" /\ resp'.method = "POST"
       /\ DOMAIN books \ DOMAIN books' # {} =>
             resp'.op = "book_delete" /\ resp'.method = "POST"
       /\ DOMAIN reviews \ DOMAIN reviews' # {} =>
             resp'.op \in {"review_delete", "book_delete"} /\ resp'.method = "POST"]_vars

\* A GET to the delete path of a stored Book with a Review, beside a stored
\* Quote, was answered with a redirect.
DeleteGetWitness ==
    /\ resp.op = "book_delete"
    /\ resp.method = "GET"
    /\ resp.status = 302
    /\ DOMAIN books # {}
    /\ DOMAIN reviews # {}
    /\ DOMAIN quotes # {}

(***************************************************************************)
(* SpecForms: the server-rendered create and edit views of the three       *)
(* entities, one request at a time, with every field of a form missing,    *)
(* empty or filled.                                                        *)
(***************************************************************************)
MaxFormRows == 1

FormFields == {NULL, "", "a"}

FormRatings == {ABSENT, <<>>, <<"x">>, <<"5">>, <<"6">>}

QuoteForms == {QuoteForm(t, a, e) : t \in FormFields, a \in FormFields, e \in {NULL, "Romantic"}}

BookForms == {BookForm(t, a) : t \in FormFields, a \in FormFields}

ReviewForms == {ReviewForm(n, r, b) : n \in FormFields, r \in FormRatings, b \in FormFields}

NextForms ==
    \/ \E method \in Methods, form \in QuoteForms :
          quoteSeq <= MaxFormRows /\ quote_create(method, form)
    \/ \E pk \in 1..MaxFormRows, method \in Methods, form \in QuoteForms :
          quote_edit(pk, method, form)
    \/ \E method \in Methods, form \in BookForms, file \in {NULL, "a.jpg"} :
          bookSeq <= MaxFormRows /\ book_create(method, form, file)
    \/ \E pk \in 1..MaxFormRows, method \in Methods, form \in BookForms :
          book_edit(pk, method, form, NULL)
    \/ \E book_id \in 1..MaxFormRows, method \in Methods :
          reviewing = {} /\ review_create(book_id, method)
    \/ \E r \in reviewing, form \in ReviewForms :
          reviewSeq <= MaxFormRows /\ review_create_post(r, form)
    \/ \E pk \in 1..MaxFormRows, method \in Methods :
          reviewing = {} /\ review_edit(pk, method)
    \/ \E r \in reviewing, form \in ReviewForms : review_edit_post(r, form)

SpecForms == Init /\ [][NextForms]_vars

\* C10: on the server-rendered surface a create or edit submission with a
\* required field missing or empty (Quote text or author, Book title or author,
\* Review reviewer_name, rating or body) does not raise and does not change the
\* store: it is answered with the form or a redirect and an error notice.
MissingFieldRejected ==
    [][/\ \A form \in QuoteForms :
             ~(Truthy(form.text) /\ Truthy(form.author)) =>
                 \A pk \in DOMAIN quotes :
                    (quote_create("POST", form) \/ quote_edit(pk, "POST", form)) =>
                        /\ store' = store
                        /\ resp'.status \in {200, 302}
                        /\ resp'.notice = "error"
       /\ \A form \in BookForms :
             ~(Truthy(form.title) /\ Truthy(form.author)) =>
                 \A pk \in DOMAIN books :
                    (book_create("POST", form, NULL) \/ book_edit(pk, "POST", form, NULL)) =>
                        /\ store' = store
                        /\ resp'.status \in {200, 302}
                        /\ resp'.notice = "error"
       /\ \A form \in ReviewForms :
             ~(Truthy(form.reviewer_name) /\ TruthyRaw(form.rating) /\ Truthy(form.body)) =>
                 \A r \in reviewing :
                    (review_create_post(r, form) \/ review_edit_post(r, form)) =>
                        /\ store' = store
                        /\ resp'.status \in {200, 302}
                        /\ resp'.notice = "error"]_vars

(***************************************************************************)
(* SpecGone: rows of the three entities created and deleted on both        *)
(* surfaces, every delete also sent for ids that are not stored.           *)
(***************************************************************************)
MaxGoneRows == 1

NextGone ==
    \/ quoteSeq <= MaxGoneRows /\ quote_create("POST", QuoteForm("a", "a", NULL))
    \/ \E pk \in 1..MaxGoneRows, method \in Methods : quote_delete(pk, method)
    \/ \E pk \in 1..MaxGoneRows : QuoteViewSet_destroy(pk)
    \/ bookSeq <= MaxGoneRows /\ book_create("POST", BookForm("a", "a"), NULL)
    \/ \E pk \in 1..MaxGoneRows, method \in Methods : book_delete(pk, method)
    \/ \E pk \in 1..MaxGoneRows : BookViewSet_destroy(pk)
    \/ \E book_id \in DOMAIN books : reviewing = {} /\ review_create(book_id, "POST")
    \/ \E r \in reviewing :
          reviewSeq <= MaxGoneRows
              /\ review_create_post(r, ReviewForm("a", <<"5">>, "a"))
    \/ \E pk \in 1..MaxGoneRows, method \in Methods : review_delete(pk, method)
    \/ \E pk \in 1..MaxGoneRows : ReviewViewSet_destroy(pk)

SpecGone == Init /\ [][NextGone]_vars

\* C11: a delete of a Quote, Book or Review id that is not stored (it was
\* deleted before), on the pages with any method and on the API, is answered
\* 404 and leaves the store as it is; and after a delete of a stored id (POST
\* on the pages, DELETE on the API) the id is not stored, so that the same
\* delete again ends in the store of the single delete.
DeleteOfDeletedIsNotFound ==
    [][\A pk \in 1..MaxGoneRows :
          /\ \A method \in Methods :
                /\ pk \notin DOMAIN quotes /\ quote_delete(pk, method) =>
                      store' = store /\ resp'.status = 404
                /\ pk \notin DOMAIN books /\ book_delete(pk, method) =>
                      store' = store /\ resp'.status = 404
                /\ pk \notin DOMAIN reviews /\ review_delete(pk, method) =>
                      store' = store /\ resp'.status = 404
          /\ pk \notin DOMAIN quotes /\ QuoteViewSet_destroy(pk) =>
                store' = store /\ resp'.status = 404
          /\ pk \notin DOMAIN books /\ BookViewSet_destroy(pk) =>
                store' = store /\ resp'.status = 404
          /\ pk \notin DOMAIN reviews /\ ReviewViewSet_destroy(pk) =>
                store' = store /\ resp'.status = 404
          /\ quote_delete(pk, "POST") \/ QuoteViewSet_destroy(pk) =>
                pk \notin DOMAIN quotes'
          /\ book_delete(pk, "POST") \/ BookViewSet_destroy(pk) =>
                pk \notin DOMAIN books'
          /\ review_delete(pk, "POST") \/ ReviewViewSet_destroy(pk) =>
                pk \notin DOMAIN reviews']_vars

\* A Review that had been stored and deleted was deleted again on its page, and
\* the answer was 404, with its Book and a Quote stored.
DeleteOfDeletedWitness ==
    /\ resp.op = "review_delete"
    /\ resp.method = "POST"
    /\ resp.status = 404
    /\ reviewSeq > 1
    /\ reviews = EmptyTable
    /\ DOMAIN books # {}
    /\ DOMAIN quotes # {}

(***************************************************************************)
(* SpecEra: quotes created and edited on both surfaces with era and        *)
(* author_bio_summary missing, empty or filled.                            *)
(***************************************************************************)
MaxEraQuotes == 2

NextEra ==
    \/ \E era \in Eras :
          quoteSeq <= MaxEraQuotes /\ quote_create("POST", QuoteForm("a", "a", era))
    \/ \E pk \in DOMAIN quotes, era \in Eras :
          quote_edit(pk, "POST", QuoteForm("a", "a", era))
    \/ \E era \in Eras, bio \in {NULL, "", "old"} :
          quoteSeq <= MaxEraQuotes /\ QuoteViewSet_create(QuoteData("a", "a", era, bio))

SpecEra == Init /\ [][NextEra]_vars

\* C12: after any sequence of create and edit operations on either surface no
\* stored Quote has era or author_bio_summary equal to the empty string.
NoEmptyEraOrBio ==
    \A q \in DOMAIN quotes :
        quotes[q].era # "" /\ quotes[q].author_bio_summary # ""

(***************************************************************************)
(* SpecCover: books created and edited on both surfaces, with and without  *)
(* an upload, and retrieved.  On the API a payload may also leave the      *)
(* cover_image key out or hold null for it.                                *)
(***************************************************************************)
MaxCoverBooks == 2

NextCover ==
    \/ \E file \in {NULL, "a.jpg"} :
          bookSeq <= MaxCoverBooks /\ book_create("POST", BookForm("a", "a"), file)
    \/ \E pk \in DOMAIN books, method \in Methods, file \in {NULL, "b.jpg"} :
          book_edit(pk, method, BookForm("b", "a"), file)
    \/ \E cover \in {empty, NULL, "a.jpg"} :
          bookSeq <= MaxCoverBooks /\ BookViewSet_create(BookData("a", "a", cover))
    \/ \E pk \in DOMAIN books, cover \in {empty, NULL, "b.jpg"} :
          BookViewSet_update(pk, BookData("b", "a", cover))
    \/ \E pk \in 1..MaxCoverBooks : BookViewSet_retrieve(pk)

SpecCover == Init /\ [][NextCover]_vars

\* C13: a Book created with an uploaded image (page or API) holds a cover
\* reference and one created without holds none; retrieving a Book yields a
\* cover URL that is non-null exactly when the Book holds a cover reference, and
\* it is the absolute URL of that reference; and an edit that carries no new
\* upload (the page without a file, the API without the cover_image key) leaves
\* the cover reference as it was.
CoverRoundTrip ==
    [][/\ \A file \in Files :
             book_create("POST", BookForm("a", "a"), file) =>
                 (books'[bookSeq].cover_image # NULL <=> file # NULL)
       /\ \A cover \in {empty, "a.jpg"} :
             BookViewSet_create(BookData("a", "a", cover)) =>
                 /\ books'[bookSeq].cover_image # NULL <=> cover # empty
                 /\ resp'.cover_image_url # NULL <=> cover # empty
       /\ \A pk \in DOMAIN books :
             /\ BookViewSet_retrieve(pk) =>
                   /\ resp'.cover_image_url # NULL <=> books[pk].cover_image # NULL
                   /\ books[pk].cover_image # NULL =>
                         resp'.cover_image_url = build_absolute_uri(books[pk].cover_image)
             /\ \A method \in Methods :
                   book_edit(pk, method, BookForm("b", "a"), NULL) =>
                       books'[pk].cover_image = books[pk].cover_image
             /\ BookViewSet_update(pk, BookData("b", "a", empty)) =>
                   books'[pk].cover_image = books[pk].cover_image]_vars

\* A Book created with an upload and then edited without one was retrieved, and
\* the URL is that of the upload; another Book holds no cover.
CoverRoundTripWitness ==
    /\ resp.op = "BookViewSet.retrieve"
    /\ resp.cover_image_url = build_absolute_uri(StoredName("a.jpg"))
    /\ \E b \in DOMAIN books :
          books[b].title = "b" /\ books[b].cover_image = StoredName("a.jpg")
    /\ \E b \in DOMAIN books : books[b].cover_image = NULL

(***************************************************************************)
(* SpecStale: one quote edited while a biography fetch of it, on either    *)
(* surface, waits for Wikipedia.                                           *)
(***************************************************************************)
MaxStaleQuotes == 1

NextStale ==
    \/ quoteSeq <= MaxStaleQuotes /\ quote_create("POST", QuoteForm("a", "a", NULL))
    \/ \E pk \in DOMAIN quotes, form \in {QuoteForm("b", "a", NULL),
                                         QuoteForm("a", "b", "Modern")} :
          quote_edit(pk, "POST", form)
    \/ \E pk \in DOMAIN quotes : fetching = {} /\ quote_fetch_bio(pk, "POST")
    \/ \E f \in fetching, response \in Responses : quote_fetch_bio_return(f, response)
    \/ \E pk \in DOMAIN quotes : fetching = {} /\ fetch_author_bio(pk)
    \/ \E f \in fetching, response \in Responses : fetch_author_bio_return(f, response)

SpecStale == Init /\ [][NextStale]_vars

\* C14: the biography fetch changes only author_bio_summary: when a fetch of a
\* stored Quote completes, on either surface and whatever was edited since the
\* fetch read the Quote, the text, author and era stored before the completion
\* are the ones stored after it.
FetchKeepsEdits ==
    [][\A f \in fetching, response \in Responses :
          (/\ f.pk \in DOMAIN quotes
           /\ \/ quote_fetch_bio_return(f, response)
              \/ fetch_author_bio_return(f, response)) =>
              /\ quotes'[f.pk].text = quotes[f.pk].text
              /\ quotes'[f.pk].author = quotes[f.pk].author
              /\ quotes'[f.pk].era = quotes[f.pk].era]_vars

====
